---------------------------- MODULE Spec2Model ----------------------------
(***************************************************************************)
(* A model of the Gymrun -> Strong converter (convert.py) and of the       *)
(* unmapped-exercise extractor (exercises.py).                             *)
(*                                                                         *)
(* A run is a straight-line batch job.  Its position is pc; its table is   *)
(* df (the rows of gymrun_df, in frame order) with column set cols; what   *)
(* it printed is log; what it wrote is outFile.  The inputs of the run     *)
(* (the source file, the mapping dictionary, whether the files can be read *)
(* and written) are chosen in Init.                                        *)
(*                                                                         *)
(* Values.  A text cell is a string, NA when the cell is missing.  A       *)
(* numeric cell is a record [t, v]: t = "int" with v the integer,          *)
(* t = "float" with v the value in hundredths, t = "nan", t = "inf" with   *)
(* v the sign, t = "text" for a cell that holds non-numeric text.  A local *)
(* date is <<day, month, year>>, a local time <<hour, minute, second>>,    *)
(* both <<>> when missing; an instant is its number of seconds since       *)
(* 1970-01-01 00:00:00; a formatted '%Y-%m-%d %H:%M:%S' string is          *)
(* <<year, month, day, hour, minute, second>>.                             *)
(***************************************************************************)
EXTENDS Integers, Sequences, FiniteSets, TLC

\* The largest number of data rows of a source file.
MaxRows == 3

NA == "<NA>"
NaT == -1
NoFile == <<[nofile |-> TRUE]>>

-----------------------------------------------------------------------------
(* Calendar arithmetic: what pandas/pytz compute for the timestamps.       *)

SecPerDay == 24 * 3600

IsLeap(y) == (y % 4 = 0 /\ y % 100 # 0) \/ y % 400 = 0

DaysInMonth(y, m) ==
    IF m = 2 THEN (IF IsLeap(y) THEN 29 ELSE 28)
    ELSE IF m \in {4, 6, 9, 11} THEN 30 ELSE 31

\* Days from 1970-01-01 to the civil date y-m-d.
DaysFromCivil(y, m, d) ==
    LET yy  == IF m <= 2 THEN y - 1 ELSE y
        era == yy \div 400
        yoe == yy - era * 400
        mp  == IF m > 2 THEN m - 3 ELSE m + 9
        doy == (153 * mp + 2) \div 5 + d - 1
        doe == yoe * 365 + yoe \div 4 - yoe \div 100 + doy
    IN  era * 146097 + doe - 719468

\* The civil date <<y, m, d>> of a day number.
CivilFromDays(z) ==
    LET zz  == z + 719468
        era == zz \div 146097
        doe == zz - era * 146097
        yoe == (doe - doe \div 1460 + doe \div 36524 - doe \div 146096) \div 365
        doy == doe - (365 * yoe + yoe \div 4 - yoe \div 100)
        mp  == (5 * doy + 2) \div 153
        d   == doy - (153 * mp + 2) \div 5 + 1
        m   == IF mp < 10 THEN mp + 3 ELSE mp - 9
        y   == yoe + era * 400
    IN  << (IF m <= 2 THEN y + 1 ELSE y), m, d >>

\* pd.to_datetime(Date + ' ' + Time, format='%d.%m.%Y %H:%M:%S', errors='coerce'):
\* the naive instant, NaT when a part is missing or the text is no such date.
ParseNaive(date, time) ==
    IF Len(date) # 3 \/ Len(time) # 3 THEN NaT
    ELSE LET d == date[1]  m == date[2]  y == date[3]
             H == time[1]  M == time[2]  S == time[3]
         IN  IF /\ m \in 1..12
                /\ d >= 1 /\ d <= DaysInMonth(y, m)
                /\ H \in 0..23 /\ M \in 0..59 /\ S \in 0..59
             THEN DaysFromCivil(y, m, d) * SecPerDay + H * 3600 + M * 60 + S
             ELSE NaT

\* The day number of the last Sunday of a 31-day month (1970-01-01 was a Thursday).
LastSunday(y, m) ==
    LET last == DaysFromCivil(y, m, 31)
    IN  last - ((last + 4) % 7)

\* Europe/Oslo: the local hour 02:00-03:00 of the last Sunday of March does not
\* exist, that of the last Sunday of October occurs twice.
NonExistentLocal(naive) ==
    LET y  == CivilFromDays(naive \div SecPerDay)[1]
        s0 == LastSunday(y, 3) * SecPerDay + 2 * 3600
    IN  s0 <= naive /\ naive < s0 + 3600

AmbiguousLocal(naive) ==
    LET y  == CivilFromDays(naive \div SecPerDay)[1]
        f0 == LastSunday(y, 10) * SecPerDay + 2 * 3600
    IN  f0 <= naive /\ naive < f0 + 3600

\* norway_tz.localize(dt, is_dst=None) followed by tz_convert('UTC'), for a
\* local time that exists once: CEST (+2h) between the two changes, CET (+1h) else.
LocalToUTC(naive) ==
    LET y  == CivilFromDays(naive \div SecPerDay)[1]
        s0 == LastSunday(y, 3) * SecPerDay + 2 * 3600
        f0 == LastSunday(y, 10) * SecPerDay + 2 * 3600
    IN  IF s0 + 3600 <= naive /\ naive < f0 THEN naive - 2 * 3600
        ELSE naive - 3600

\* The calendar date of the instant on a clock one hour ahead of UTC.
LocalDate(ts) == (ts + 3600) \div SecPerDay

\* Timestamp.dt.date, as a day number.
UTCDate(ts) == ts \div SecPerDay

\* dt.strftime('%Y-%m-%d %H:%M:%S').
FormatTimestamp(ts) ==
    LET c == CivilFromDays(ts \div SecPerDay)
        s == ts % SecPerDay
    IN  << c[1], c[2], c[3], s \div 3600, (s % 3600) \div 60, s % 60 >>

-----------------------------------------------------------------------------
(* Cells and the numeric conversions of pandas/numpy.  A float is held in   *)
(* exact hundredths; the cells the runs are given are ones whose products  *)
(* in double precision are the exact ones (0.29 * 60, 2.5 * 1000).         *)

IntV(n) == [t |-> "int", v |-> n]
FltV(h) == [t |-> "float", v |-> h]
NaN    == [t |-> "nan", v |-> 0]
Inf(s) == [t |-> "inf", v |-> s]
Txt    == [t |-> "text", v |-> 0]

\* Integer division that rounds toward zero, as a float -> int cast does.
Trunc(a, b) == IF a >= 0 THEN a \div b ELSE -((-a) \div b)

\* pd.to_numeric(x, errors='coerce'): text that is no number becomes NaN.
ToNumeric(c) == IF c.t = "text" THEN NaN ELSE c

\* .fillna(default)
FillNa(c, default) == IF c.t = "nan" THEN default ELSE c

\* x > 0 (False for NaN)
IsPositive(c) == c.t \in {"int", "float", "inf"} /\ c.v > 0

\* x * k
Times(c, k) == IF c.t \in {"int", "float"} THEN [c EXCEPT !.v = c.v * k] ELSE c

\* .astype(int) raises on NaN and on +-inf, and truncates a float otherwise.
CanCastInt(c) == c.t \in {"int", "float"}
AsInt(c) == IF c.t = "float" THEN IntV(Trunc(c.v, 100)) ELSE c

\* .astype(float)
AsFloat(c) == IF c.t = "int" THEN FltV(c.v * 100) ELSE c

\* .astype(str) of a text cell: a missing cell becomes the text 'nan'.
Str(x) == IF x = NA THEN "nan" ELSE x

\* The row r with column k set to v.
Put(r, k, v) == (k :> v) @@ r

RECURSIVE UniqueInOrder(_)
\* Series.unique(): the distinct values in order of first appearance.
UniqueInOrder(s) ==
    IF s = <<>> THEN <<>>
    ELSE LET h == UniqueInOrder(SubSeq(s, 1, Len(s) - 1))
             x == s[Len(s)]
         IN  IF \E i \in 1..Len(h) : h[i] = x THEN h ELSE Append(h, x)

Range(s) == {s[i] : i \in 1..Len(s)}

-----------------------------------------------------------------------------
(* The schemas.                                                            *)

\* The columns of a Gymrun export.
GymrunColumns ==
    {"Date", "Time", "Routine", "Exercise", "Set", "Weight", "Reps",
     "Type", "Duration", "Distance", "Note"}

required_gymrun_cols ==
    <<"Date", "Time", "Exercise", "Set", "Weight", "Reps", "Type", "Duration", "Distance">>

essential_cols_short == <<"Date", "Time", "Exercise", "Set", "Weight">>

essential_cols == <<"Date", "Time", "Exercise", "Set", "Weight", "Reps">>

\* The header of the Strong example file.
strong_headers ==
    <<"Workout #", "Date", "Workout Name", "Duration (sec)", "Exercise Name",
      "Set Order", "Weight (kg)", "Reps", "RPE", "Distance (meters)", "Seconds",
      "Notes", "Workout Notes">>

rename_map(c) ==
    CASE c = "Routine"  -> "Workout Name"
      [] c = "Exercise" -> "Exercise Name"
      [] c = "Set"      -> "Set Order"
      [] c = "Weight"   -> "Weight (kg)"
      [] c = "Note"     -> "Notes"
      [] OTHER          -> c

\* The value a Strong column gets when the frame lacks it.
MissingColumnValue(col) ==
    IF col \in {"RPE", "Notes", "Workout Notes"} THEN ""
    ELSE IF col \in {"Weight (kg)", "Distance (meters)"} THEN FltV(0)
    ELSE IF col \in {"Reps", "Set Order", "Seconds", "Duration (sec)"} THEN IntV(0)
    ELSE ""

fill_defaults ==
    [c \in {"Workout Name", "Notes", "Workout Notes", "RPE"} |->
        IF c = "Workout Name" THEN "Workout" ELSE ""]

IntDefault(col) == IF col = "Set Order" THEN IntV(1) ELSE IntV(0)

-----------------------------------------------------------------------------
VARIABLES
    job,              \* "convert" or "extract": the script that runs
    gymrun_file,      \* the source file: [status, columns, rows]
    mapping_dict,     \* [given, dict]: the mapping dictionary passed in
    writable,         \* whether the output path can be written
    pc,               \* the position of the run
    gymrun_df,        \* [columns, rows]: the working table
    converted_df,     \* the converter's selected table (rows)
    unmapped_df,      \* the extractor's filtered table (rows)
    unique_unmapped_count,  \* the count the extractor printed, NoCount if none
    log,              \* what was printed: a sequence of [msg, cols]
    output_file       \* the rows written, NoFile when nothing was written

vars == <<job, gymrun_file, mapping_dict, writable, pc, gymrun_df, converted_df,
          unmapped_df, unique_unmapped_count, log, output_file>>

inputs == <<job, gymrun_file, mapping_dict, writable>>

NoCount == [reported |-> FALSE, n |-> 0]

Report(msg, cols) == Append(log, [msg |-> msg, cols |-> cols])

Said(msg) == \E i \in 1..Len(log) : log[i].msg = msg

-----------------------------------------------------------------------------
(* convert_gymrun_to_strong                                                *)

\* Lines 48-63: read the two files.
LoadFiles ==
    /\ job = "convert" /\ pc = "load"
    /\ IF gymrun_file.status = "notfound"
       THEN /\ log' = Report("Error loading file", {})
            /\ pc' = "returned"
            /\ UNCHANGED gymrun_df
       ELSE IF gymrun_file.status = "unreadable"
       THEN /\ log' = Report("Error reading CSV files", {})
            /\ pc' = "returned"
            /\ UNCHANGED gymrun_df
       ELSE /\ gymrun_df' =
                 [columns |-> gymrun_file.columns,
                  rows |-> [i \in 1..Len(gymrun_file.rows) |->
                               Put(gymrun_file.rows[i], "index", i - 1)]]
            /\ log' = Report("Successfully loaded", {})
            /\ pc' = "check_columns"
    /\ UNCHANGED <<inputs, converted_df, unmapped_df, unique_unmapped_count, output_file>>

\* Lines 65-77: the column checks.
CheckColumns ==
    /\ job = "convert" /\ pc = "check_columns"
    /\ LET missing_cols == {c \in Range(required_gymrun_cols) : c \notin gymrun_df.columns}
           missing_essential == {c \in Range(essential_cols) : c \notin gymrun_df.columns}
           warned == IF missing_cols # {}
                     THEN Report("Warning: Missing optional columns", missing_cols)
                     ELSE log
       IN  IF missing_cols # {} /\ missing_essential # {}
           THEN /\ log' = Append(warned, [msg |-> "Error: Missing essential columns",
                                          cols |-> missing_essential])
                /\ pc' = "returned"
           ELSE /\ log' = warned
                /\ pc' = "timestamps"
    /\ UNCHANGED <<inputs, gymrun_df, converted_df, unmapped_df, unique_unmapped_count,
                   output_file>>

\* The rows with a parsed NaiveTimestamp, those that do not parse dropped (83-84).
ParsedRows(rows) ==
    SelectSeq([i \in 1..Len(rows) |->
                  Put(rows[i], "NaiveTimestamp", ParseNaive(rows[i]["Date"], rows[i]["Time"]))],
              LAMBDA r : r["NaiveTimestamp"] # NaT)

\* The error of the first row (in frame order) that localize() rejects, "" if none.
LocalizeError(rows) ==
    IF \E i \in 1..Len(rows) : NonExistentLocal(rows[i]["NaiveTimestamp"])
                                 \/ AmbiguousLocal(rows[i]["NaiveTimestamp"])
    THEN LET i == CHOOSE i \in 1..Len(rows) :
                    /\ NonExistentLocal(rows[i]["NaiveTimestamp"])
                         \/ AmbiguousLocal(rows[i]["NaiveTimestamp"])
                    /\ \A j \in 1..(i - 1) :
                          ~ (NonExistentLocal(rows[j]["NaiveTimestamp"])
                               \/ AmbiguousLocal(rows[j]["NaiveTimestamp"]))
         IN  IF AmbiguousLocal(rows[i]["NaiveTimestamp"])
             THEN "Error: Ambiguous time"
             ELSE "Error: Non-existent time"
    ELSE ""

\* Whether step 3 (tz_convert on the localized column) raises: Series.apply on
\* an empty frame returns an empty tz-naive column, which tz_convert rejects.
TzConvertRaises(rows) == rows = <<>>

\* Lines 81-103: parse, drop, localize, convert to UTC.
NormalizeTimestamps ==
    /\ job = "convert" /\ pc = "timestamps"
    /\ LET kept == ParsedRows(gymrun_df.rows)
           err  == LocalizeError(kept)
           cols1 == gymrun_df.columns \cup {"NaiveTimestamp"}
       IN  IF err # ""
           THEN /\ gymrun_df' = [columns |-> cols1, rows |-> kept]
                /\ log' = Report(err, {})
                /\ pc' = "returned"
           ELSE IF TzConvertRaises(kept)
           THEN /\ gymrun_df' = [columns |-> cols1 \cup {"LocalizedTimestamp"}, rows |-> kept]
                /\ log' = Report("Error processing Date/Time columns", {})
                /\ pc' = "returned"
           ELSE /\ gymrun_df' =
                     [columns |-> cols1 \cup {"LocalizedTimestamp", "Timestamp"},
                      rows |-> [i \in 1..Len(kept) |->
                                   Put(kept[i], "Timestamp",
                                       LocalToUTC(kept[i]["NaiveTimestamp"]))]]
                /\ log' = Report("Parsed 'Date' and 'Time'", {})
                /\ pc' = "group"
    /\ UNCHANGED <<inputs, converted_df, unmapped_df, unique_unmapped_count, output_file>>

\* The rows left in file order.
UnsortedOrders(rows) == {[i \in 1..Len(rows) |-> i]}

\* The orders sort_values('Timestamp') may leave the rows in (quicksort: rows
\* with equal timestamps in any order).
SortedOrders(rows) ==
    {p \in Permutations(1..Len(rows)) :
        \A i, j \in 1..Len(rows) :
            i < j => rows[p[i]]["Timestamp"] <= rows[p[j]]["Timestamp"]}

\* The least timestamp of the whole frame, whatever the date.
GroupMinOfAll(rows, d) ==
    LET S == {rows[i]["Timestamp"] : i \in 1..Len(rows)}
    IN  CHOOSE x \in S : \A y \in S : x <= y

\* groupby('WorkoutUTCDate')['Timestamp'].transform('min' / 'max')
GroupMin(rows, d) ==
    LET S == {rows[i]["Timestamp"] : i \in {j \in 1..Len(rows) : UTCDate(rows[j]["Timestamp"]) = d}}
    IN  CHOOSE x \in S : \A y \in S : x <= y

GroupMax(rows, d) ==
    LET S == {rows[i]["Timestamp"] : i \in {j \in 1..Len(rows) : UTCDate(rows[j]["Timestamp"]) = d}}
    IN  CHOOSE x \in S : \A y \in S : x >= y

\* utc_date_to_workout_num[d]: the place of d among the unique dates, from 1.
WorkoutNum(unique_utc_dates, d) ==
    CHOOSE i \in 1..Len(unique_utc_dates) : unique_utc_dates[i] = d

\* Lines 109-118 on the sorted rows.
Grouped(rows) ==
    LET unique_utc_dates == UniqueInOrder([i \in 1..Len(rows) |-> UTCDate(rows[i]["Timestamp"])])
    IN  [i \in 1..Len(rows) |->
           LET r == rows[i]
               d == UTCDate(r["Timestamp"])
               start == GroupMin(rows, d)
               end == GroupMax(rows, d)
           IN  Put(Put(Put(Put(Put(Put(r,
                   "WorkoutUTCDate", d),
                   "WorkoutStartTimeUTC", start),
                   "WorkoutEndTimeUTC", end),
                   "Duration (sec)", IntV(end - start)),
                   "Workout #", IntV(WorkoutNum(unique_utc_dates, d))),
                   "Date", FormatTimestamp(start))]

\* Lines 105-118: sort by UTC timestamp, then group by UTC date.
SortAndGroup ==
    /\ job = "convert" /\ pc = "group"
    /\ \E p \in SortedOrders(gymrun_df.rows) :
          gymrun_df' =
             [columns |-> gymrun_df.columns \cup
                            {"WorkoutUTCDate", "WorkoutStartTimeUTC", "WorkoutEndTimeUTC",
                             "Duration (sec)", "Workout #"},
              rows |-> Grouped([i \in 1..Len(gymrun_df.rows) |-> gymrun_df.rows[p[i]]])]
    /\ pc' = "cardio"
    /\ UNCHANGED <<inputs, converted_df, unmapped_df, unique_unmapped_count, log, output_file>>

\* duration_numeric / distance_numeric: to_numeric(errors='coerce').fillna(0)
Numeric(c) == FillNa(ToNumeric(c), IntV(0))

\* The conversion without the > 0 test.
SecondsOfUnguarded(c) == AsInt(Times(Numeric(c), 60))

\* np.where(duration_numeric > 0, (duration_numeric * 60).astype(int), 0)
SecondsOf(c) ==
    IF IsPositive(Numeric(c)) THEN AsInt(Times(Numeric(c), 60)) ELSE IntV(0)

\* np.where(distance_numeric > 0, (distance_numeric * 1000).astype(float), 0.0)
MetersOf(c) ==
    IF IsPositive(Numeric(c)) THEN AsFloat(Times(Numeric(c), 1000)) ELSE FltV(0)

\* (duration_numeric * 60).astype(int) is computed for the whole column before
\* np.where selects: one non-finite cell makes it raise.
DurationCastRaises(rows) ==
    \E i \in 1..Len(rows) : ~ CanCastInt(Times(Numeric(rows[i]["Duration"]), 60))

\* Lines 120-151: Duration (minutes) -> Seconds, Distance (km) -> Distance (meters).
\* Nothing catches an exception raised here.
CardioData ==
    /\ job = "convert" /\ pc = "cardio"
    /\ LET rows0 == [i \in 1..Len(gymrun_df.rows) |->
                        Put(Put(gymrun_df.rows[i], "Seconds", IntV(0)),
                            "Distance (meters)", FltV(0))]
           cols0 == gymrun_df.columns \cup {"Seconds", "Distance (meters)"}
           hasDur == "Duration" \in gymrun_df.columns
           hasDist == "Distance" \in gymrun_df.columns
           rows1 == IF hasDur
                    THEN [i \in 1..Len(rows0) |->
                             Put(rows0[i], "Seconds", SecondsOf(rows0[i]["Duration"]))]
                    ELSE rows0
           rows2 == IF hasDist
                    THEN [i \in 1..Len(rows1) |->
                             Put(rows1[i], "Distance (meters)", MetersOf(rows1[i]["Distance"]))]
                    ELSE rows1
           log1 == IF hasDur THEN Report("Processed Duration", {})
                   ELSE Report("Warning: column missing", {"Duration"})
       IN  IF hasDur /\ DurationCastRaises(rows0)
           THEN /\ gymrun_df' = [columns |-> cols0, rows |-> rows0]
                /\ pc' = "raised"
                /\ UNCHANGED log
           ELSE /\ gymrun_df' = [columns |-> cols0, rows |-> rows2]
                /\ log' = Append(log1, IF hasDist
                                        THEN [msg |-> "Processed Distance", cols |-> {}]
                                        ELSE [msg |-> "Warning: column missing",
                                              cols |-> {"Distance"}])
                /\ pc' = "rename"
    /\ UNCHANGED <<inputs, converted_df, unmapped_df, unique_unmapped_count, output_file>>

\* gymrun_df.rename(columns=rename_map): the row under the new column names.
Renamed(r) ==
    [c \in {rename_map(k) : k \in DOMAIN r} |->
        r[CHOOSE k \in DOMAIN r : rename_map(k) = c]]

\* valid_mappings: keys and values as text, a missing (NaN) key left out.
ValidMappings(dict) ==
    [k \in DOMAIN dict \ {NA} |-> Str(dict[k])]

\* A second round of replacement over the replaced name.
ReplaceChained(name, valid) ==
    LET once == IF name \in DOMAIN valid THEN valid[name] ELSE name
    IN  IF once \in DOMAIN valid THEN valid[once] ELSE once

\* Series.replace(valid_mappings) on one name: one pass, every key matched
\* against the original value.
Replace(name, valid) ==
    IF name \in DOMAIN valid THEN valid[name] ELSE name

\* apply_exercise_mappings(df, mapping_dict, exercise_col): the rows of df.
apply_exercise_mappings(df, dict, exercise_col) ==
    IF exercise_col \in df.columns
    THEN [i \in 1..Len(df.rows) |->
             Put(df.rows[i], exercise_col,
                 Replace(Str(df.rows[i][exercise_col]), ValidMappings(dict)))]
    ELSE df.rows

\* initial_mapping, {} when None was passed.
initial_mapping == IF mapping_dict.given THEN mapping_dict.dict ELSE <<>>

\* Lines 154-168: rename the columns, then substitute the exercise names.
RenameAndMap ==
    /\ job = "convert" /\ pc = "rename"
    /\ LET renamed == [columns |-> {rename_map(c) : c \in gymrun_df.columns},
                       rows |-> [i \in 1..Len(gymrun_df.rows) |-> Renamed(gymrun_df.rows[i])]]
       IN  /\ gymrun_df' = [renamed EXCEPT
                              !.rows = apply_exercise_mappings(renamed, initial_mapping,
                                                               "Exercise Name")]
           /\ log' = Report(IF "Exercise Name" \in renamed.columns
                            THEN "Applied exercise mappings"
                            ELSE "Warning: Exercise column not found", {})
    /\ pc' = "defaults"
    /\ UNCHANGED <<inputs, converted_df, unmapped_df, unique_unmapped_count, output_file>>

\* Lines 170-181: every Strong column the frame lacks, with its initial value.
WithStrongColumns(r, columns) ==
    [c \in DOMAIN r \cup Range(strong_headers) |->
        IF c \in columns \/ c \notin Range(strong_headers) THEN r[c]
        ELSE MissingColumnValue(c)]

IntColumns == {"Set Order", "Reps", "Seconds"}
FloatColumns == {"Weight (kg)", "Distance (meters)"}

\* Lines 198-207, one cell of column c: coerce, fill the default, cast.
\* (The text columns are filled through fillna(inplace=True) on the column.)
Defaulted(c, x) ==
    IF c \in IntColumns THEN AsInt(FillNa(ToNumeric(x), IntDefault(c)))
    ELSE IF c \in FloatColumns THEN AsFloat(FillNa(ToNumeric(x), FltV(0)))
    ELSE IF c \in DOMAIN fill_defaults THEN (IF x = NA THEN fill_defaults[c] ELSE x)
    ELSE IF c = "Duration (sec)" THEN AsInt(x)
    ELSE x

\* Whether a cast to int of lines 202 or 211-216 raises: a cell that is still
\* not finite after the default was filled in.
DefaultCastRaises(rows) ==
    \E i \in 1..Len(rows) : \E c \in IntColumns :
        ~ CanCastInt(FillNa(ToNumeric(rows[i][c]), IntDefault(c)))

\* Lines 170-216: complete the Strong columns, fill defaults, fix the types.
\* Nothing catches an exception raised here.
CompleteAndDefault ==
    /\ job = "convert" /\ pc = "defaults"
    /\ LET cols1 == gymrun_df.columns \cup Range(strong_headers)
           rows1 == [i \in 1..Len(gymrun_df.rows) |->
                        WithStrongColumns(gymrun_df.rows[i], gymrun_df.columns)]
       IN  IF DefaultCastRaises(rows1)
           THEN /\ gymrun_df' = [columns |-> cols1, rows |-> rows1]
                /\ pc' = "raised"
           ELSE /\ gymrun_df' =
                     [columns |-> cols1,
                      rows |-> [i \in 1..Len(rows1) |->
                                   [c \in DOMAIN rows1[i] |-> Defaulted(c, rows1[i][c])]]]
                /\ pc' = "select"
    /\ UNCHANGED <<inputs, converted_df, unmapped_df, unique_unmapped_count, log, output_file>>

\* Lines 221-233: the Strong columns of the frame (the row index is kept).
SelectColumns ==
    /\ job = "convert" /\ pc = "select"
    /\ LET missing_final_cols == {c \in Range(strong_headers) : c \notin gymrun_df.columns}
       IN  IF missing_final_cols # {}
           THEN /\ log' = Report("Error: Final DataFrame is missing required Strong columns",
                                 missing_final_cols)
                /\ pc' = "returned"
                /\ UNCHANGED converted_df
           ELSE /\ converted_df' =
                     [i \in 1..Len(gymrun_df.rows) |->
                         [c \in Range(strong_headers) \cup {"index"} |-> gymrun_df.rows[i][c]]]
                /\ pc' = "save"
                /\ UNCHANGED log
    /\ UNCHANGED <<inputs, gymrun_df, unmapped_df, unique_unmapped_count, output_file>>

\* to_csv(output_file, index=False): the rows without the index.
CsvRows(rows, columns) ==
    [i \in 1..Len(rows) |-> [c \in columns |-> rows[i][c]]]

\* Lines 236-241: write the output file.
SaveOutput ==
    /\ job = "convert" /\ pc = "save"
    /\ IF writable
       THEN /\ output_file' = CsvRows(converted_df, Range(strong_headers))
            /\ log' = Report("Conversion complete", {})
            /\ pc' = "done"
       ELSE /\ log' = Report("Error saving output file", {})
            /\ pc' = "returned"
            /\ UNCHANGED output_file
    /\ UNCHANGED <<inputs, gymrun_df, converted_df, unmapped_df, unique_unmapped_count>>

-----------------------------------------------------------------------------
(* extract_unmapped_exercises                                              *)

\* Lines 21-41: default the dictionary, read the file, look for the column.
ExtractLoad ==
    /\ job = "extract" /\ pc = "load"
    /\ LET log0 == IF mapping_dict.given THEN log
                   ELSE Report("Warning: No mapping dictionary provided", {})
       IN  IF gymrun_file.status = "notfound"
           THEN /\ log' = Append(log0, [msg |-> "Error: File not found", cols |-> {}])
                /\ pc' = "returned"
                /\ UNCHANGED gymrun_df
           ELSE IF gymrun_file.status = "unreadable"
           THEN /\ log' = Append(log0, [msg |-> "Error reading CSV file", cols |-> {}])
                /\ pc' = "returned"
                /\ UNCHANGED gymrun_df
           ELSE /\ gymrun_df' =
                     [columns |-> gymrun_file.columns,
                      rows |-> [i \in 1..Len(gymrun_file.rows) |->
                                   Put(gymrun_file.rows[i], "index", i - 1)]]
                /\ IF "Exercise" \notin gymrun_file.columns
                   THEN /\ log' = Append(Append(log0,
                                     [msg |-> "Successfully loaded", cols |-> {}]),
                                     [msg |-> "Error: Exercise column not found",
                                      cols |-> gymrun_file.columns])
                        /\ pc' = "returned"
                   ELSE /\ log' = Append(log0, [msg |-> "Successfully loaded", cols |-> {}])
                        /\ pc' = "filter"
    /\ UNCHANGED <<inputs, converted_df, unmapped_df, unique_unmapped_count, output_file>>

\* list(mapping_dict.keys()), of {} when None was passed.
mapped_exercises == IF mapping_dict.given THEN DOMAIN mapping_dict.dict ELSE {}

\* Membership among the dictionary's values instead of its keys.
IsUnmappedByValue(r) ==
    Str(r["Exercise"]) \notin
        (IF mapping_dict.given
         THEN {mapping_dict.dict[k] : k \in DOMAIN mapping_dict.dict} ELSE {})

\* ~gymrun_df[exercise_col].astype(str).isin(mapped_exercises)
IsUnmapped(r) == Str(r["Exercise"]) \notin mapped_exercises

\* Series.nunique(): the number of distinct values, missing ones not counted.
NUnique(rows, col) == Cardinality({rows[i][col] : i \in 1..Len(rows)} \ {NA})

\* Lines 43-56: keep the unmapped rows and count their distinct names.
ExtractFilter ==
    /\ job = "extract" /\ pc = "filter"
    /\ LET kept == SelectSeq(gymrun_df.rows, IsUnmapped)
       IN  /\ unmapped_df' = kept
           /\ IF kept # <<>>
              THEN /\ unique_unmapped_count' = [reported |-> TRUE, n |-> NUnique(kept, "Exercise")]
                   /\ log' = Report("Found unique unmapped exercises", {})
              ELSE /\ log' = Report("No unmapped exercises found", {})
                   /\ UNCHANGED unique_unmapped_count
    /\ pc' = "save"
    /\ UNCHANGED <<inputs, gymrun_df, converted_df, output_file>>

\* Lines 59-64: write the unmapped rows.
ExtractSave ==
    /\ job = "extract" /\ pc = "save"
    /\ IF writable
       THEN /\ output_file' = CsvRows(unmapped_df, gymrun_df.columns)
            /\ log' = Report("Unmapped exercises saved", {})
            /\ pc' = "done"
       ELSE /\ log' = Report("Error saving output file", {})
            /\ pc' = "returned"
            /\ UNCHANGED output_file
    /\ UNCHANGED <<inputs, gymrun_df, converted_df, unmapped_df, unique_unmapped_count>>

-----------------------------------------------------------------------------
(* The inputs of a run.                                                    *)

\* One set of a strength exercise, all columns filled in.
BaseRow ==
    [Date |-> <<10, 1, 2023>>, Time |-> <<10, 0, 0>>, Routine |-> "Push",
     Exercise |-> "Squat", Set |-> IntV(1), Weight |-> FltV(5000), Reps |-> IntV(5),
     Type |-> NA, Duration |-> NaN, Distance |-> NaN, Note |-> NA]

\* Local dates and times: a winter day (one time whose UTC date is the day
\* before), the skipped hour of the spring change of 2023, the hours before, in
\* and after the repeated hour of the autumn change, a date that does not exist
\* and a missing cell.
TimeCands ==
    { << <<10, 1, 2023>>, <<0, 30, 0>> >>,
      << <<10, 1, 2023>>, <<10, 0, 0>> >>,
      << <<10, 1, 2023>>, <<11, 15, 30>> >>,
      << <<26, 3, 2023>>, <<2, 30, 0>> >>,
      << <<29, 10, 2023>>, <<1, 30, 0>> >>,
      << <<29, 10, 2023>>, <<2, 30, 0>> >>,
      << <<29, 10, 2023>>, <<3, 30, 0>> >>,
      << <<31, 2, 2023>>, <<10, 0, 0>> >>,
      << <<>>, <<10, 0, 0>> >> }

TimeRows == {[BaseRow EXCEPT !.Date = dt[1], !.Time = dt[2]] : dt \in TimeCands}

\* <<Duration, Distance, Reps>> cells: 5 min and 2.5 km, 0.29 min, 3 km,
\* 5.5 repetitions, zero, negative, text, missing, infinite.
UnitCands ==
    << <<IntV(5), FltV(250), IntV(5)>>,
       <<FltV(29), NaN, FltV(550)>>,
       <<NaN, IntV(3), NaN>>,
       <<IntV(0), FltV(0), Txt>>,
       <<IntV(-3), FltV(-150), IntV(5)>>,
       <<Txt, Txt, IntV(8)>>,
       <<Inf(1), NaN, IntV(5)>>,
       <<NaN, Inf(1), IntV(5)>>,
       <<NaN, NaN, Inf(1)>> >>

\* Each with its own minute of the day.
UnitRows ==
    {[BaseRow EXCEPT !.Time = <<10, k, 0>>, !.Duration = UnitCands[k][1],
                     !.Distance = UnitCands[k][2], !.Reps = UnitCands[k][3]] :
        k \in 1..Len(UnitCands)}

ExerciseNames == <<"Barbell Bench", "Bench Press (Barbell)", "Squat", NA>>

NameRows ==
    {[BaseRow EXCEPT !.Time = <<10, k, 0>>, !.Exercise = ExerciseNames[k]] :
        k \in 1..Len(ExerciseNames)}

\* Mapping dictionaries: none passed, empty, one entry, a chain of two, a key
\* that is the text 'nan', a key that is missing (NaN).
Dicts ==
    { [given |-> FALSE, dict |-> <<>>],
      [given |-> TRUE, dict |-> <<>>],
      [given |-> TRUE, dict |-> ("Barbell Bench" :> "Bench Press (Barbell)")],
      [given |-> TRUE, dict |-> ("Barbell Bench" :> "Bench Press (Barbell)")
                                  @@ ("Bench Press (Barbell)" :> "Chest Press")],
      [given |-> TRUE, dict |-> ("nan" :> "Unknown")],
      [given |-> TRUE, dict |-> (NA :> "Unknown") @@ ("Squat" :> "Squat (Barbell)")] }

\* Two cardio sets on different days, for the runs that vary the columns.
ColumnRows ==
    << [BaseRow EXCEPT !.Duration = IntV(5), !.Distance = FltV(250)],
       [BaseRow EXCEPT !.Date = <<11, 1, 2023>>, !.Routine = NA] >>

\* The rows of a file that has only the columns cols.
Restrict(rows, cols) ==
    [i \in 1..Len(rows) |-> [c \in cols |-> rows[i][c]]]

File(status, cols, rows) ==
    [status |-> status, columns |-> cols, rows |-> Restrict(rows, cols)]

NoDict == [given |-> TRUE, dict |-> <<>>]

\* The run is given job j, source file f, dictionary d and an output path that
\* is writable or not.
Given(j, f, d, w) ==
    /\ job = j
    /\ gymrun_file = f
    /\ mapping_dict = d
    /\ writable = w

\* The converter's runs: files of up to MaxRows rows that vary the timestamps,
\* the cardio and repetition cells, the exercise names and the dictionary, the
\* columns present, and whether the files can be read and written.
ConvertInputs ==
    \/ \E k \in 0..MaxRows : \E rows \in [1..k -> TimeRows] :
          Given("convert", File("ok", GymrunColumns, rows), NoDict, TRUE)
    \/ \E k \in 1..MaxRows : \E rows \in [1..k -> UnitRows] :
          Given("convert", File("ok", GymrunColumns, rows), NoDict, TRUE)
    \/ \E k \in 1..MaxRows : \E rows \in [1..k -> NameRows] : \E d \in Dicts :
          Given("convert", File("ok", GymrunColumns, rows), d, TRUE)
    \/ \E cols \in SUBSET GymrunColumns :
          Given("convert", File("ok", cols, ColumnRows), NoDict, TRUE)
    \/ \E st \in {"ok", "notfound", "unreadable"} : \E w \in BOOLEAN :
          Given("convert", File(st, GymrunColumns, ColumnRows), NoDict, w)

\* The extractor's runs.
ExtractInputs ==
    \/ \E k \in 0..MaxRows : \E rows \in [1..k -> NameRows] : \E d \in Dicts :
          Given("extract", File("ok", GymrunColumns, rows), d, TRUE)
    \/ \E st \in {"ok", "notfound", "unreadable"} :
       \E cols \in {GymrunColumns, GymrunColumns \ {"Exercise"}} :
       \E w \in BOOLEAN :
          Given("extract", File(st, cols, ColumnRows), NoDict, w)

Init ==
    /\ ConvertInputs \/ ExtractInputs
    /\ pc = "load"
    /\ gymrun_df = [columns |-> {}, rows |-> <<>>]
    /\ converted_df = <<>>
    /\ unmapped_df = <<>>
    /\ unique_unmapped_count = NoCount
    /\ log = <<>>
    /\ output_file = NoFile

Next ==
    \/ LoadFiles
    \/ CheckColumns
    \/ NormalizeTimestamps
    \/ SortAndGroup
    \/ CardioData
    \/ RenameAndMap
    \/ CompleteAndDefault
    \/ SelectColumns
    \/ SaveOutput
    \/ ExtractLoad
    \/ ExtractFilter
    \/ ExtractSave

Spec == Init /\ [][Next]_vars

-----------------------------------------------------------------------------
(* The properties.                                                         *)

Converting == job = "convert"
Extracting == job = "extract"

\* The source row a frame row came from (the frame keeps the file's row index).
SrcRow(r) == gymrun_file.rows[r["index"] + 1]

SrcNaive(q) == ParseNaive(q["Date"], q["Time"])

Parseable(q) == SrcNaive(q) # NaT

OnDSTBoundary(q) ==
    Parseable(q) /\ (NonExistentLocal(SrcNaive(q)) \/ AmbiguousLocal(SrcNaive(q)))

SrcIndexes == 1..Len(gymrun_file.rows)

\* The day number of an instant, written out.
DayOf(ts) == ts \div 86400

\* The frame carries the session columns.
HasSessions == Converting /\ "Workout #" \in gymrun_df.columns

\* The run left the column checks behind and entered the timestamp step.
EnteredTimestamps == Converting /\ "NaiveTimestamp" \in gymrun_df.columns

AbortedOnDST == Said("Error: Ambiguous time") \/ Said("Error: Non-existent time")

AbortedInTimestamps == AbortedOnDST \/ Said("Error processing Date/Time columns")

Completed == pc = "done"

MinOf(S) == CHOOSE x \in S : \A y \in S : x <= y
MaxOf(S) == CHOOSE x \in S : \A y \in S : x >= y

\* C1: once the rows are grouped, every retained row carries as session start
\* the least and as session end the greatest UTC timestamp of the retained rows
\* of its UTC calendar date, its own timestamp lies between them, and its
\* 'Duration (sec)' is end - start in seconds; the rows of one date agree on
\* all three.
C1_SessionBounds ==
    HasSessions =>
        LET rows == gymrun_df.rows
        IN  \A i \in 1..Len(rows) :
               LET r == rows[i]
                   same == {rows[j]["Timestamp"] :
                              j \in {k \in 1..Len(rows) :
                                       DayOf(rows[k]["Timestamp"]) = DayOf(r["Timestamp"])}}
               IN  /\ r["Timestamp"] = LocalToUTC(SrcNaive(SrcRow(r)))
                   /\ r["WorkoutStartTimeUTC"] = MinOf(same)
                   /\ r["WorkoutEndTimeUTC"] = MaxOf(same)
                   /\ r["WorkoutStartTimeUTC"] <= r["Timestamp"]
                   /\ r["Timestamp"] <= r["WorkoutEndTimeUTC"]
                   /\ r["Duration (sec)"] = IntV(MaxOf(same) - MinOf(same))
                   /\ \A j \in 1..Len(rows) :
                         DayOf(rows[j]["Timestamp"]) = DayOf(r["Timestamp"]) =>
                            /\ rows[j]["WorkoutStartTimeUTC"] = r["WorkoutStartTimeUTC"]
                            /\ rows[j]["WorkoutEndTimeUTC"] = r["WorkoutEndTimeUTC"]
                            /\ rows[j]["Duration (sec)"] = r["Duration (sec)"]

\* A completed run with a session of two rows at different times, the later
\* row first in the file, and a row of another session.
C1_Witness ==
    /\ Converting /\ Completed
    /\ \E i, j, k \in 1..Len(gymrun_df.rows) :
          LET ri == gymrun_df.rows[i]  rj == gymrun_df.rows[j]  rk == gymrun_df.rows[k]
          IN  /\ DayOf(ri["Timestamp"]) = DayOf(rj["Timestamp"])
              /\ ri["Timestamp"] < rj["Timestamp"]
              /\ rj["index"] < ri["index"]
              /\ DayOf(rk["Timestamp"]) # DayOf(ri["Timestamp"])
              /\ ri["Duration (sec)"].v > 0

\* C2: with N distinct UTC dates among the retained rows the 'Workout #' values
\* are exactly 1..N, two rows have the same number exactly when they have the
\* same UTC date, a date that first occurs earlier has the smaller number, and
\* down the rows of the frame and of the output file the number never decreases.
C2_DenseNumbering ==
    HasSessions =>
        LET rows == gymrun_df.rows
            num(i) == rows[i]["Workout #"].v
            day(i) == DayOf(rows[i]["Timestamp"])
            first(d) == MinOf({i \in 1..Len(rows) : day(i) = d})
        IN  /\ {num(i) : i \in 1..Len(rows)}
                  = 1..Cardinality({day(i) : i \in 1..Len(rows)})
            /\ \A i, j \in 1..Len(rows) :
                  /\ (num(i) = num(j)) <=> (day(i) = day(j))
                  /\ (first(day(i)) < first(day(j))) => num(i) < num(j)
                  /\ i < j => num(i) <= num(j)
            /\ Completed =>
                  /\ Len(output_file) = Len(rows)
                  /\ \A i, j \in 1..Len(output_file) :
                        /\ output_file[i]["Workout #"] = rows[i]["Workout #"]
                        /\ i < j => output_file[i]["Workout #"].v <= output_file[j]["Workout #"].v

\* A completed run over a file that is not in chronological order and holds
\* three sessions.
C2_Witness ==
    /\ Converting /\ Completed
    /\ \E i \in 1..Len(output_file) : output_file[i]["Workout #"].v = 3
    /\ \E i, j \in SrcIndexes :
          /\ i < j
          /\ Parseable(gymrun_file.rows[i]) /\ Parseable(gymrun_file.rows[j])
          /\ SrcNaive(gymrun_file.rows[j]) < SrcNaive(gymrun_file.rows[i])

\* C3 (as claimed): once the timestamp step has run, the run was aborted there
\* with a daylight-saving error and wrote nothing if some parseable row lies in
\* the skipped or the repeated hour, and was not aborted there if none does.
C3_AsClaimed ==
    (EnteredTimestamps /\ pc # "timestamps") =>
        IF \E i \in SrcIndexes : OnDSTBoundary(gymrun_file.rows[i])
        THEN pc = "returned" /\ AbortedOnDST /\ output_file = NoFile
        ELSE ~ AbortedInTimestamps

\* C4 (as claimed): no exception escapes convert_gymrun_to_strong.
C4_NoExceptionEscapes == Converting => pc # "raised"

\* C5 (as claimed): a row whose Date and Time do not parse is dropped and does
\* not abort the run (only a daylight-saving error aborts the timestamp step),
\* and a completed run wrote exactly one row per parseable source row.
C5_AsClaimed ==
    /\ (EnteredTimestamps /\ pc # "timestamps"
          /\ \E i \in SrcIndexes : ~ Parseable(gymrun_file.rows[i]))
         => (AbortedInTimestamps => AbortedOnDST)
    /\ (Converting /\ Completed) =>
          /\ Len(output_file) = Cardinality({i \in SrcIndexes : Parseable(gymrun_file.rows[i])})
          /\ {converted_df[i]["index"] + 1 : i \in 1..Len(converted_df)}
                = {i \in SrcIndexes : Parseable(gymrun_file.rows[i])}

TheEssential == {"Date", "Time", "Exercise", "Set", "Weight", "Reps"}

\* The run has gone through the column checks.
PastColumnChecks ==
    Converting /\ gymrun_file.status = "ok" /\ pc \notin {"load", "check_columns"}

AbortedOnColumns == Said("Error: Missing essential columns")

\* A warning in the log names column c.
WarnedAbout(c) ==
    \E i \in 1..Len(log) :
        /\ log[i].msg \in {"Warning: Missing optional columns", "Warning: column missing"}
        /\ c \in log[i].cols

AbortsBeforeTimestamps ==
    (AbortedOnColumns <=> TheEssential \ gymrun_file.columns # {})
    /\ (AbortedOnColumns =>
           /\ pc = "returned"
           /\ ~ EnteredTimestamps
           /\ output_file = NoFile)

\* C6 (as claimed): the run aborts before the timestamp step exactly when one
\* of the six essential columns is absent; with all six present, an absent
\* Type, Duration, Distance, Routine or Note is warned about, at the latest
\* when the run has completed.
C6_AsClaimed ==
    PastColumnChecks =>
        /\ AbortsBeforeTimestamps
        /\ (Completed =>
               \A c \in {"Type", "Duration", "Distance", "Routine", "Note"} :
                  c \notin gymrun_file.columns => WarnedAbout(c))

\* C6 (amended): the run aborts before the timestamp step, writing nothing,
\* exactly when one of the six essential columns is absent.  With all six
\* present it goes on to the timestamp step; an absent Type, Duration or
\* Distance is warned about at the column check, an absent Routine or Note is
\* never warned about; and a completed run carries the degraded values: Seconds
\* 0 without Duration, Distance (meters) 0.0 without Distance, an empty
\* Workout Name without Routine and empty Notes without Note.
C6_Amended ==
    PastColumnChecks =>
        /\ AbortsBeforeTimestamps
        /\ ~ AbortedOnColumns =>
              /\ \A c \in {"Type", "Duration", "Distance"} :
                    c \notin gymrun_file.columns => WarnedAbout(c)
              /\ \A c \in {"Routine", "Note"} : ~ WarnedAbout(c)
              /\ pc # "returned" \/ AbortedInTimestamps \/ Said("Error saving output file")
        /\ Completed =>
              \A i \in 1..Len(output_file) :
                 /\ "Duration" \notin gymrun_file.columns => output_file[i]["Seconds"] = IntV(0)
                 /\ "Distance" \notin gymrun_file.columns =>
                       output_file[i]["Distance (meters)"] = FltV(0)
                 /\ "Routine" \notin gymrun_file.columns => output_file[i]["Workout Name"] = ""
                 /\ "Note" \notin gymrun_file.columns => output_file[i]["Notes"] = ""

\* A completed run over a file without Duration, Routine and Note.
C6_Witness ==
    /\ Converting /\ Completed
    /\ gymrun_file.columns = GymrunColumns \ {"Duration", "Routine", "Note"}
    /\ Len(output_file) = 2
    /\ WarnedAbout("Duration")

RECURSIVE KeptOf(_, _)
\* The rows of a file whose exercise name, as text, is not in keys, in order.
KeptOf(rows, keys) ==
    IF rows = <<>> THEN <<>>
    ELSE LET rest == KeptOf(SubSeq(rows, 1, Len(rows) - 1), keys)
             last == rows[Len(rows)]
             name == IF last["Exercise"] = NA THEN "nan" ELSE last["Exercise"]
         IN  IF name \in keys THEN rest ELSE Append(rest, last)

DictKeys == IF mapping_dict.given THEN DOMAIN mapping_dict.dict ELSE {}

\* C7: a completed extraction wrote exactly the source rows whose exercise
\* name, as text, is no key of the dictionary, in source order and unchanged;
\* when it kept a row it reported the number of distinct names (a missing name
\* is no name) among the kept rows, and when it kept none it reported that no
\* unmapped exercise was found.
C7_Extraction ==
    (Extracting /\ Completed) =>
        LET kept == KeptOf(gymrun_file.rows, DictKeys)
            names == {kept[i]["Exercise"] : i \in 1..Len(kept)} \ {NA}
        IN  /\ output_file = kept
            /\ kept # <<>> =>
                  /\ unique_unmapped_count.reported
                  /\ unique_unmapped_count.n = Cardinality(names)
            /\ kept = <<>> =>
                  /\ ~ unique_unmapped_count.reported
                  /\ Said("No unmapped exercises found")

\* The example of the specification: "Barbell Bench" is mapped, the file holds
\* "Barbell Bench" and "Squat" rows, only the "Squat" rows are written and one
\* unique unmapped exercise is reported.
C7_Witness ==
    /\ Extracting /\ Completed
    /\ DictKeys = {"Barbell Bench"}
    /\ \E i, j \in SrcIndexes :
          /\ gymrun_file.rows[i]["Exercise"] = "Barbell Bench"
          /\ gymrun_file.rows[j]["Exercise"] = "Squat"
    /\ output_file # <<>>
    /\ \A i \in 1..Len(output_file) : output_file[i]["Exercise"] = "Squat"
    /\ unique_unmapped_count = [reported |-> TRUE, n |-> 1]

\* The name the dictionary gives a source exercise cell: its value under the
\* cell's text when that is a (non-missing) key, the cell's text otherwise.
MappedName(x) ==
    LET name == IF x = NA THEN "nan" ELSE x
        d == IF mapping_dict.given THEN mapping_dict.dict ELSE <<>>
    IN  IF name \in DOMAIN d \ {NA} THEN d[name] ELSE name

\* C8: from the substitution on, every row's 'Exercise Name' is the dictionary's
\* value for the source name when that name, as text, is a key, and the source
\* name otherwise; it is substituted once (a value that is itself a key stays),
\* and the written rows carry the same names.
C8_Substitution ==
    (Converting /\ pc \in {"defaults", "select", "save", "done"}) =>
        /\ \A i \in 1..Len(gymrun_df.rows) :
              gymrun_df.rows[i]["Exercise Name"]
                 = MappedName(SrcRow(gymrun_df.rows[i])["Exercise"])
        /\ Completed =>
              \A i \in 1..Len(output_file) :
                 output_file[i]["Exercise Name"]
                    = MappedName(SrcRow(converted_df[i])["Exercise"])

\* A completed run whose dictionary maps "Barbell Bench" to a name that is
\* itself a key: the row is written under that name, not under the next one.
C8_Witness ==
    /\ Converting /\ Completed
    /\ mapping_dict.given
    /\ {"Barbell Bench", "Bench Press (Barbell)"} \subseteq DOMAIN mapping_dict.dict
    /\ \E i \in 1..Len(output_file) :
          /\ SrcRow(converted_df[i])["Exercise"] = "Barbell Bench"
          /\ output_file[i]["Exercise Name"] = "Bench Press (Barbell)"
    /\ \E i \in 1..Len(output_file) :
          /\ SrcRow(converted_df[i])["Exercise"] = "Squat"
          /\ output_file[i]["Exercise Name"] = "Squat"

\* Minutes to whole seconds and kilometres to metres, from the source cell.
ExpectedSeconds(present, c) ==
    IF present /\ c.t = "int" /\ c.v > 0 THEN IntV(c.v * 60)
    ELSE IF present /\ c.t = "float" /\ c.v > 0 THEN IntV((c.v * 60) \div 100)
    ELSE IntV(0)

ExpectedMeters(present, c) ==
    IF present /\ c.t = "int" /\ c.v > 0 THEN FltV(c.v * 1000 * 100)
    ELSE IF present /\ c.t = "float" /\ c.v > 0 THEN FltV(c.v * 1000)
    ELSE IF present /\ c.t = "inf" /\ c.v > 0 THEN c
    ELSE FltV(0)

\* C9: in every written row 'Seconds' is the source Duration times 60, cut to
\* an integer, when the Duration column is present and the cell is a number
\* above 0, and the integer 0 otherwise; 'Distance (meters)' is the source
\* Distance times 1000, as a float, when the column is present and the cell is
\* a number above 0, and 0.0 otherwise.
C9_UnitConversion ==
    (Converting /\ Completed) =>
        \A i \in 1..Len(output_file) :
           LET q == SrcRow(converted_df[i])
               hasDur == "Duration" \in gymrun_file.columns
               hasDist == "Distance" \in gymrun_file.columns
           IN  /\ output_file[i]["Seconds"]
                     = ExpectedSeconds(hasDur, IF hasDur THEN q["Duration"] ELSE NaN)
               /\ output_file[i]["Distance (meters)"]
                     = ExpectedMeters(hasDist, IF hasDist THEN q["Distance"] ELSE NaN)

\* A completed run with the rows of the specification's example (5 minutes
\* give 300, 2.5 km give 2500.0), a row of 0.29 minutes (17), and a row with a
\* negative duration and distance (0 and 0.0).
C9_Witness ==
    /\ Converting /\ Completed
    /\ \E i \in 1..Len(output_file) :
          /\ SrcRow(converted_df[i])["Duration"] = IntV(5)
          /\ SrcRow(converted_df[i])["Distance"] = FltV(250)
          /\ output_file[i]["Seconds"] = IntV(300)
          /\ output_file[i]["Distance (meters)"] = FltV(250000)
    /\ \E i \in 1..Len(output_file) :
          /\ SrcRow(converted_df[i])["Duration"] = FltV(29)
          /\ output_file[i]["Seconds"] = IntV(17)
    /\ \E i \in 1..Len(output_file) :
          /\ SrcRow(converted_df[i])["Duration"] = IntV(-3)
          /\ output_file[i]["Seconds"] = IntV(0)
          /\ output_file[i]["Distance (meters)"] = FltV(0)

\* C10: in the written rows, two rows have the same 'Workout #' exactly when
\* they have the same 'Date' field; rows with the same 'Workout #' have the same
\* 'Duration (sec)'; the calendar date in a row's 'Date' field is the UTC
\* calendar date of the row's own timestamp; and every 'Duration (sec)' lies in
\* 0..86399.
C10_OutputSessions ==
    (Converting /\ Completed) =>
        \A i, j \in 1..Len(output_file) :
           LET oi == output_file[i]
               oj == output_file[j]
               ts == LocalToUTC(SrcNaive(SrcRow(converted_df[i])))
               date == CivilFromDays(DayOf(ts))
           IN  /\ (oi["Workout #"] = oj["Workout #"]) <=> (oi["Date"] = oj["Date"])
               /\ (oi["Workout #"] = oj["Workout #"])
                     => (oi["Duration (sec)"] = oj["Duration (sec)"])
               /\ <<oi["Date"][1], oi["Date"][2], oi["Date"][3]>> = date
               /\ oi["Duration (sec)"].t = "int"
               /\ oi["Duration (sec)"].v \in 0..86399

\* A completed run that wrote two sessions, one of them of two rows an hour
\* and more apart, whose local date is not its UTC date.
C10_Witness ==
    /\ Converting /\ Completed
    /\ \E i, j, k \in 1..Len(output_file) :
          /\ output_file[i]["Workout #"] = output_file[j]["Workout #"]
          /\ output_file[i]["Workout #"] # output_file[k]["Workout #"]
          /\ output_file[i]["Duration (sec)"].v >= 3600
          /\ i # j
          /\ SrcRow(converted_df[k])["Date"] = <<10, 1, 2023>>
          /\ output_file[k]["Date"] = <<2023, 1, 9, 23, 30, 0>>

=============================================================================
